---- MODULE Spec2Model ----
(***************************************************************************)
(* Model of k8s-aws-node-cleanup (main.go): a loop that, on every timer    *)
(* tick, lists the cluster's nodes and deletes the node objects that are   *)
(* reported not ready and whose EC2 instance is not running.               *)
(***************************************************************************)
EXTENDS Integers, Sequences, FiniteSets, TLC

VARIABLES
    dryRun,      \* *cliDryRun, read once at start-up
    cluster,     \* the cluster's node directory: name -> conditions
    instances,   \* the provider's registry: instance id -> state
    pc,          \* position of main's loop
    list,        \* list.Items of the current tick
    idx,         \* index of the node being processed in list
    trace,       \* what the current tick has done so far, in order
    conditions,  \* argument of a direct call of isReady
    readyRet,    \* what that call returned
    resp,        \* DescribeInstances output given to a direct call of isRunning
    id,          \* the id argument of that call
    runningRet   \* what that call returned

loopVars == <<dryRun, cluster, instances, pc, list, idx, trace>>
callVars == <<conditions, readyRet, resp, id, runningRet>>
vars == <<dryRun, cluster, instances, pc, list, idx, trace,
          conditions, readyRet, resp, id, runningRet>>

----------------------------------------------------------------------------
(* Bounds of the enumerated inputs *)

MaxConds == 2
MaxReservations == 2
MaxInstances == 2

----------------------------------------------------------------------------
(* Values of the Kubernetes and EC2 APIs the code compares against *)

NodeReady == "Ready"
ConditionTrue == "True"
ConditionFalse == "False"
ConditionUnknown == "Unknown"
InstanceStateNameRunning == "running"

ConditionTypes == {NodeReady, "MemoryPressure", "DiskPressure"}
ConditionStatuses == {ConditionTrue, ConditionFalse, ConditionUnknown}
InstanceStateNames == {InstanceStateNameRunning, "stopped", "terminated"}

Nil == "nil"
NoValue == "none"

NodeNames == {"n1", "n2"}
InstanceIds == {"i-1", "i-2"}
ExternalID(name) == IF name = "n1" THEN "i-1" ELSE "i-2"

----------------------------------------------------------------------------
(* isReady, main.go:96-110 *)

ErrConditionNotFound == "cannot find condition type: Ready"

RECURSIVE isReadyFrom(_, _)
isReadyFrom(conds, k) ==
    IF k > Len(conds)
    THEN [ready |-> FALSE, err |-> ErrConditionNotFound]
    ELSE IF conds[k].type # NodeReady
         THEN isReadyFrom(conds, k + 1)
         ELSE IF conds[k].status = ConditionFalse
              THEN [ready |-> TRUE, err |-> Nil]
              ELSE [ready |-> FALSE, err |-> Nil]

\* a missing Ready condition taken for "not ready"
isReady_MissingIsNotReady(conds) ==
    LET r == isReadyFrom(conds, 1)
    IN  IF r.err # Nil THEN [ready |-> FALSE, err |-> Nil] ELSE r

isReady(conds) == isReadyFrom(conds, 1)

----------------------------------------------------------------------------
(* isRunning, main.go:113-144.  out is what svc.DescribeInstances returned: *)
(* [err, reservations], reservations a sequence of sequences of instances   *)
(* [id, state].                                                             *)

ErrProvider == "RequestLimitExceeded"
ErrInstanceNotFound(i) == "cannot find running instance: " \o i

\* the inner loop, main.go:129-140: the first instance of one reservation
\* whose InstanceId is i, and whether its state is "running"
RECURSIVE scanInstances(_, _, _)
scanInstances(insts, i, k) ==
    IF k > Len(insts)
    THEN [found |-> FALSE, running |-> FALSE]
    ELSE IF insts[k].id # i
         THEN scanInstances(insts, i, k + 1)
         ELSE [found |-> TRUE,
               running |-> (insts[k].state = InstanceStateNameRunning)]

\* the outer loop, main.go:128-143
RECURSIVE scanReservations(_, _, _)
scanReservations(rs, i, r) ==
    IF r > Len(rs)
    THEN [running |-> FALSE, err |-> ErrInstanceNotFound(i)]
    ELSE LET f == scanInstances(rs[r], i, 1)
         IN  IF f.found
             THEN [running |-> f.running, err |-> Nil]
             ELSE scanReservations(rs, i, r + 1)

\* the zero-reservations case not handled before the scan
isRunning_NoEmptyCase(out, i) ==
    IF out.err # Nil
    THEN [running |-> FALSE, err |-> out.err]
    ELSE scanReservations(out.reservations, i, 1)

\* only the first reservation scanned
isRunning_FirstReservationOnly(out, i) ==
    IF out.err # Nil
    THEN [running |-> FALSE, err |-> out.err]
    ELSE IF Len(out.reservations) = 0
         THEN [running |-> FALSE, err |-> Nil]
         ELSE scanReservations(<<out.reservations[1]>>, i, 1)

\* an instance missing from the reservations taken for "not running"
isRunning_MissingIsNotRunning(out, i) ==
    IF out.err # Nil
    THEN [running |-> FALSE, err |-> out.err]
    ELSE LET r == scanReservations(out.reservations, i, 1)
         IN  IF r.err # Nil THEN [running |-> FALSE, err |-> Nil] ELSE r

isRunning(out, i) ==
    IF out.err # Nil
    THEN [running |-> FALSE, err |-> out.err]
    ELSE IF Len(out.reservations) = 0
         THEN [running |-> FALSE, err |-> Nil]
         ELSE scanReservations(out.reservations, i, 1)

----------------------------------------------------------------------------
(* The inputs the two functions are called with directly *)

SeqsUpTo(S, n) == UNION {[1..k -> S] : k \in 0..n}

Condition == [type : ConditionTypes, status : ConditionStatuses]

\* a node carries at most one condition of each type
ConditionSeqs ==
    {cs \in SeqsUpTo(Condition, MaxConds) :
        \A a, b \in 1..Len(cs) : cs[a].type = cs[b].type => a = b}

Instance == [id : InstanceIds, state : InstanceStateNames]

RECURSIVE Flatten(_)
Flatten(rs) == IF rs = <<>> THEN <<>> ELSE Head(rs) \o Flatten(Tail(rs))

\* the instances of one reservation
InstanceSeqs ==
    {is \in SeqsUpTo(Instance, MaxInstances) :
        \A a, b \in 1..Len(is) : is[a].id = is[b].id => a = b}

\* an instance id names one instance: it occurs at most once in a response
ReservationSeqs ==
    {rs \in SeqsUpTo(InstanceSeqs, MaxReservations) :
        LET all == Flatten(rs)
        IN  \A a, b \in 1..Len(all) : all[a].id = all[b].id => a = b}

DescribeOutputs ==
    {[err |-> ErrProvider, reservations |-> <<>>]}
    \cup {[err |-> Nil, reservations |-> rs] : rs \in ReservationSeqs}

LoopIdle ==
    /\ dryRun = FALSE
    /\ cluster = <<>>
    /\ instances = <<>>
    /\ pc = "call"
    /\ list = <<>>
    /\ idx = 0
    /\ trace = <<>>

CallsIdle ==
    /\ conditions = <<>>
    /\ readyRet = NoValue
    /\ resp = NoValue
    /\ id = NoValue
    /\ runningRet = NoValue

InitIsReady ==
    /\ LoopIdle
    /\ conditions \in ConditionSeqs
    /\ readyRet = NoValue
    /\ resp = NoValue
    /\ id = NoValue
    /\ runningRet = NoValue

CallIsReady ==
    /\ pc = "call"
    /\ pc' = "return"
    /\ readyRet' = isReady(conditions)
    /\ UNCHANGED <<conditions, resp, id, runningRet>>
    /\ UNCHANGED <<dryRun, cluster, instances, list, idx, trace>>

NextIsReady == CallIsReady

SpecIsReady == InitIsReady /\ [][NextIsReady]_vars

InitIsRunning ==
    /\ LoopIdle
    /\ conditions = <<>>
    /\ readyRet = NoValue
    /\ resp \in DescribeOutputs
    /\ id \in InstanceIds
    /\ runningRet = NoValue

CallIsRunning ==
    /\ pc = "call"
    /\ pc' = "return"
    /\ runningRet' = isRunning(resp, id)
    /\ UNCHANGED <<conditions, readyRet, resp, id>>
    /\ UNCHANGED <<dryRun, cluster, instances, list, idx, trace>>

NextIsRunning == CallIsRunning

SpecIsRunning == InitIsRunning /\ [][NextIsRunning]_vars

----------------------------------------------------------------------------
(* The cluster's node directory and the provider, as main's loop sees them *)

Gone == "gone"
CloudStates == {InstanceStateNameRunning, "stopped", Gone}

\* the conditions a node of the cluster reports
NodeConditionSeqs ==
    {<<>>, <<[type |-> "MemoryPressure", status |-> ConditionFalse]>>}
    \cup {<<[type |-> NodeReady, status |-> s]>> : s \in ConditionStatuses}

\* the directory when the loop starts: every node is registered, so that a
\* node missing from the directory later is one the loop has deleted
Clusters == [NodeNames -> NodeConditionSeqs]

\* the orders in which a listing can return the nodes in S
Orders(S) ==
    {o \in [1..Cardinality(S) -> S] :
        \A a, b \in 1..Cardinality(S) : o[a] = o[b] => a = b}

Item(name) ==
    [name |-> name, externalID |-> ExternalID(name), conditions |-> cluster[name]]

ErrList == "list failed"
ErrDelete == "delete failed"
ErrNodeNotFound == "node not found"

\* what svc.DescribeInstances can answer for instance i: a provider error, the
\* registry's view of i (no reservation when the instance is gone), or
\* reservations that do not hold i
DescribeInstances(i) ==
    {[err |-> ErrProvider, reservations |-> <<>>],
     [err |-> Nil, reservations |-> << <<>> >>],
     [err |-> Nil,
      reservations |-> IF instances[i] = Gone
                       THEN <<>>
                       ELSE << <<[id |-> i, state |-> instances[i]]>> >>]}

\* what Nodes().Delete(name) can answer
DeleteOutcomes(name) ==
    IF name \in DOMAIN cluster THEN {Nil, ErrDelete} ELSE {ErrNodeNotFound}

Remove(c, name) == [n \in (DOMAIN c) \ {name} |-> c[n]]

----------------------------------------------------------------------------
(* main's loop, main.go:48-92 *)

Log(msg, arg) == [op |-> "log", msg |-> msg, arg |-> arg]

MsgListFailed == "Failed to lookup node list:"
MsgReadyFailed == "Failed to check if instance is ready:"
MsgReady == "Node is ready, skipping:"
MsgRunningFailed == "Failed to check if instance is running:"
MsgRunning == "Node is running, skipping:"
MsgDryRun == "Node would have been deleted, skipping:"
MsgDeleteFailed == "Failed to delete node:"

\* the error of isReady dropped
ReadyDecision_IgnoresError(r) ==
    IF r.ready THEN "skip-ready" ELSE "proceed"

\* main.go:60-68: what the loop does with isReady's result
ReadyDecision(r) ==
    IF r.err # Nil THEN "error"
    ELSE IF r.ready THEN "skip-ready"
    ELSE "proceed"

\* the error of isRunning dropped
RunningDecision_IgnoresError(r) ==
    IF r.running THEN "skip-running" ELSE "proceed"

\* main.go:72-80: what the loop does with isRunning's result
RunningDecision(r) ==
    IF r.err # Nil THEN "error"
    ELSE IF r.running THEN "skip-running"
    ELSE "proceed"

\* the dry-run flag not consulted
DeleteDecision_IgnoresDryRun(dry) == "delete"

\* main.go:82-87: dry run or a real delete request
DeleteDecision(dry) == IF dry THEN "would-delete" ELSE "delete"

Init ==
    /\ dryRun \in BOOLEAN
    /\ cluster \in Clusters
    /\ instances \in [InstanceIds -> CloudStates]
    /\ pc = "wait"
    /\ list = <<>>
    /\ idx = 0
    /\ trace = <<>>
    /\ CallsIdle

\* a failure on one node ends the range loop (a break or return for a continue)
NextNode_StopsOnFailure(events) ==
    /\ trace' = trace \o events
    /\ idx' = idx + 1
    /\ pc' = IF /\ idx < Len(list)
                /\ \A k \in 1..Len(events) :
                      events[k].op = "log" =>
                          events[k].msg \notin
                              {MsgReadyFailed, MsgRunningFailed, MsgDeleteFailed}
             THEN "isReady"
             ELSE "wait"

\* the end of one iteration of the range loop (every continue, and line 91)
NextNode(events) ==
    /\ trace' = trace \o events
    /\ idx' = idx + 1
    /\ pc' = IF idx < Len(list) THEN "isReady" ELSE "wait"

\* the items of the tick before kept when there are any, instead of the
\* listing just made
Tick_KeepsItems ==
    /\ pc = "wait"
    /\ \E o \in Orders(DOMAIN cluster) :
          list' = IF list # <<>> THEN list ELSE [k \in 1..Len(o) |-> Item(o[k])]
    /\ trace' = <<[op |-> "List", err |-> Nil]>>
    /\ idx' = 1
    /\ pc' = IF list' = <<>> THEN "wait" ELSE "isReady"
    /\ UNCHANGED <<dryRun, cluster, instances>>
    /\ UNCHANGED callVars

\* main.go:49-57, the listing succeeds
Tick ==
    /\ pc = "wait"
    /\ \E o \in Orders(DOMAIN cluster) :
          list' = [k \in 1..Len(o) |-> Item(o[k])]
    /\ trace' = <<[op |-> "List", err |-> Nil]>>
    /\ idx' = 1
    /\ pc' = IF DOMAIN cluster = {} THEN "wait" ELSE "isReady"
    /\ UNCHANGED <<dryRun, cluster, instances>>
    /\ UNCHANGED callVars

\* the failed listing ends the process, as the failures of start-up do
TickListFails_Exits ==
    /\ pc = "wait"
    /\ list' = <<>>
    /\ trace' = <<[op |-> "List", err |-> ErrList], Log(MsgListFailed, ErrList)>>
    /\ idx' = 1
    /\ pc' = "exit"
    /\ UNCHANGED <<dryRun, cluster, instances>>
    /\ UNCHANGED callVars

\* the failed listing not followed by continue: the loop goes on with the
\* items it had
TickListFails_GoesOn ==
    /\ pc = "wait"
    /\ list' = list
    /\ trace' = <<[op |-> "List", err |-> ErrList], Log(MsgListFailed, ErrList)>>
    /\ idx' = 1
    /\ pc' = IF Len(list) > 0 THEN "isReady" ELSE "wait"
    /\ UNCHANGED <<dryRun, cluster, instances>>
    /\ UNCHANGED callVars

\* main.go:49-55, the listing fails
TickListFails ==
    /\ pc = "wait"
    /\ list' = <<>>
    /\ trace' = <<[op |-> "List", err |-> ErrList], Log(MsgListFailed, ErrList)>>
    /\ idx' = 1
    /\ pc' = "wait"
    /\ UNCHANGED <<dryRun, cluster, instances>>
    /\ UNCHANGED callVars

\* main.go:59-68
CheckReady ==
    /\ pc = "isReady"
    /\ LET node == list[idx]
           r == isReady(node.conditions)
           d == ReadyDecision(r)
           ev == [op |-> "isReady", node |-> node.name,
                  ready |-> r.ready, err |-> r.err]
       IN  CASE d = "error" ->
                    NextNode(<<ev, Log(MsgReadyFailed, r.err)>>)
             [] d = "skip-ready" ->
                    NextNode(<<ev, Log(MsgReady, node.name)>>)
             [] OTHER ->
                    /\ trace' = Append(trace, ev)
                    /\ pc' = "isRunning"
                    /\ idx' = idx
    /\ UNCHANGED <<dryRun, cluster, instances, list>>
    /\ UNCHANGED callVars

\* main.go:71-80
CheckRunning ==
    /\ pc = "isRunning"
    /\ \E out \in DescribeInstances(list[idx].externalID) :
          LET node == list[idx]
              r == isRunning(out, node.externalID)
              d == RunningDecision(r)
              ev == [op |-> "isRunning", node |-> node.name, out |-> out,
                     running |-> r.running, err |-> r.err]
          IN  CASE d = "error" ->
                       NextNode(<<ev, Log(MsgRunningFailed, r.err)>>)
                [] d = "skip-running" ->
                       NextNode(<<ev, Log(MsgRunning, node.name)>>)
                [] OTHER ->
                       /\ trace' = Append(trace, ev)
                       /\ pc' = "delete"
                       /\ idx' = idx
    /\ UNCHANGED <<dryRun, cluster, instances, list>>
    /\ UNCHANGED callVars

\* the instance looked up again right before the delete, and a node whose
\* instance runs by then left alone
DeleteNode_ReReadsInstance ==
    /\ pc = "delete"
    /\ LET node == list[idx]
       IN  IF DeleteDecision(dryRun) = "would-delete"
           THEN /\ NextNode(<<Log(MsgDryRun, node.name)>>)
                /\ UNCHANGED cluster
           ELSE IF instances[node.externalID] = InstanceStateNameRunning
           THEN /\ NextNode(<<Log(MsgRunning, node.name)>>)
                /\ UNCHANGED cluster
           ELSE \E e \in DeleteOutcomes(node.name) :
                   LET ev == [op |-> "Delete", node |-> node.name, err |-> e]
                   IN  IF e = Nil
                       THEN /\ cluster' = Remove(cluster, node.name)
                            /\ NextNode(<<ev>>)
                       ELSE /\ UNCHANGED cluster
                            /\ NextNode(<<ev, Log(MsgDeleteFailed, e)>>)
    /\ UNCHANGED <<dryRun, instances, list>>
    /\ UNCHANGED callVars

\* the dry-run branch without its log line
DeleteNode_SilentDryRun ==
    /\ pc = "delete"
    /\ LET node == list[idx]
       IN  IF DeleteDecision(dryRun) = "would-delete"
           THEN /\ NextNode(<<>>)
                /\ UNCHANGED cluster
           ELSE \E e \in DeleteOutcomes(node.name) :
                   LET ev == [op |-> "Delete", node |-> node.name, err |-> e]
                   IN  IF e = Nil
                       THEN /\ cluster' = Remove(cluster, node.name)
                            /\ NextNode(<<ev>>)
                       ELSE /\ UNCHANGED cluster
                            /\ NextNode(<<ev, Log(MsgDeleteFailed, e)>>)
    /\ UNCHANGED <<dryRun, instances, list>>
    /\ UNCHANGED callVars

\* a failed delete tried again at once
DeleteNode_RetriesOnFailure ==
    /\ pc = "delete"
    /\ LET node == list[idx]
       IN  IF DeleteDecision(dryRun) = "would-delete"
           THEN /\ NextNode(<<Log(MsgDryRun, node.name)>>)
                /\ UNCHANGED cluster
           ELSE \E e \in DeleteOutcomes(node.name) :
                   LET ev == [op |-> "Delete", node |-> node.name, err |-> e]
                   IN  IF e = Nil
                       THEN /\ cluster' = Remove(cluster, node.name)
                            /\ NextNode(<<ev>>)
                       ELSE /\ UNCHANGED <<cluster, pc, idx>>
                            /\ trace' = trace \o <<ev, Log(MsgDeleteFailed, e)>>
    /\ UNCHANGED <<dryRun, instances, list>>
    /\ UNCHANGED callVars

\* main.go:82-90
DeleteNode ==
    /\ pc = "delete"
    /\ LET node == list[idx]
       IN  IF DeleteDecision(dryRun) = "would-delete"
           THEN /\ NextNode(<<Log(MsgDryRun, node.name)>>)
                /\ UNCHANGED cluster
           ELSE \E e \in DeleteOutcomes(node.name) :
                   LET ev == [op |-> "Delete", node |-> node.name, err |-> e]
                   IN  IF e = Nil
                       THEN /\ cluster' = Remove(cluster, node.name)
                            /\ NextNode(<<ev>>)
                       ELSE /\ UNCHANGED cluster
                            /\ NextNode(<<ev, Log(MsgDeleteFailed, e)>>)
    /\ UNCHANGED <<dryRun, instances, list>>
    /\ UNCHANGED callVars

\* the control plane updates the conditions of a node
NodeStatusUpdate ==
    /\ \E n \in DOMAIN cluster, cs \in NodeConditionSeqs :
          /\ cs # cluster[n]
          /\ cluster' = [cluster EXCEPT ![n] = cs]
    /\ UNCHANGED <<dryRun, instances, pc, list, idx, trace>>
    /\ UNCHANGED callVars

\* the provider changes the state of an instance
InstanceStateChange ==
    /\ \E i \in InstanceIds, st \in CloudStates :
          /\ st # instances[i]
          /\ instances' = [instances EXCEPT ![i] = st]
    /\ UNCHANGED <<dryRun, cluster, pc, list, idx, trace>>
    /\ UNCHANGED callVars

Next ==
    \/ Tick
    \/ TickListFails
    \/ CheckReady
    \/ CheckRunning
    \/ DeleteNode
    \/ NodeStatusUpdate
    \/ InstanceStateChange

Spec == Init /\ [][Next]_vars

----------------------------------------------------------------------------
(* Vocabulary of the properties *)

\* cs holds the Ready condition with status st
HasReadyStatus(cs, st) ==
    \E k \in 1..Len(cs) : cs[k].type = NodeReady /\ cs[k].status = st

\* cs holds no Ready condition at all
LacksReady(cs) == \A k \in 1..Len(cs) : cs[k].type # NodeReady

\* the instances of a response, whatever reservation holds them
InstancesOf(out) ==
    UNION {{out.reservations[r][k] : k \in 1..Len(out.reservations[r])} :
              r \in 1..Len(out.reservations)}

Items == {list[k] : k \in 1..Len(list)}

\* the events of the current tick about node name
EventsOf(op, name) ==
    {k \in 1..Len(trace) : trace[k].op = op /\ trace[k].node = name}

DeleteRequested(name) == EventsOf("Delete", name) # {}
Queried(name) == EventsOf("isRunning", name) # {}
Logged(msg, arg) == \E k \in 1..Len(trace) : trace[k] = Log(msg, arg)

----------------------------------------------------------------------------
(* C1 *)

\* C1: in a tick, a delete request is issued for a listed node only if the
\* listing shows its Ready condition with status false and its instance
\* lookup returned "not running" without error; a node whose Ready condition
\* is true or unknown receives no delete request.
C1_DeleteOnlyNotReadyNotRunning ==
    \A item \in Items :
        /\ DeleteRequested(item.name) =>
              /\ HasReadyStatus(item.conditions, ConditionFalse)
              /\ \E q \in EventsOf("isRunning", item.name) :
                    trace[q].running = FALSE /\ trace[q].err = Nil
        /\ (\/ HasReadyStatus(item.conditions, ConditionTrue)
            \/ HasReadyStatus(item.conditions, ConditionUnknown))
              => ~DeleteRequested(item.name)

----------------------------------------------------------------------------
(* C2 *)

\* the lookups of the current tick that failed for a listed node
ReadinessLookupFailed(item) ==
    /\ EventsOf("isReady", item.name) # {}
    /\ LacksReady(item.conditions)

ProviderLookupFailed(item) ==
    \E q \in EventsOf("isRunning", item.name) :
        \/ trace[q].out.err # Nil
        \/ /\ Len(trace[q].out.reservations) > 0
           /\ \A inst \in InstancesOf(trace[q].out) : inst.id # item.externalID

\* C2: a failed lookup never leads to deletion: when the readiness evaluation
\* of a listed node fails, its provider query fails, or the provider answers
\* with reservations that do not hold its instance, no delete request is
\* issued for the node in that tick and the node stays in the cluster.
C2_FailedLookupNeverDeletes ==
    \A item \in Items :
        (ReadinessLookupFailed(item) \/ ProviderLookupFailed(item)) =>
            /\ ~DeleteRequested(item.name)
            /\ item.name \in DOMAIN cluster

\* a tick with dry-run off has finished in which the provider's answer for
\* one node did not hold its instance, while a delete request went out for
\* the other node
C2_Witness ==
    /\ pc = "wait"
    /\ ~dryRun
    /\ \E a, b \in Items :
          /\ ProviderLookupFailed(a)
          /\ \E q \in EventsOf("isRunning", a.name) : trace[q].out.err = Nil
          /\ DeleteRequested(b.name)

----------------------------------------------------------------------------
(* C3, C4: isReady on a sequence that holds the Ready condition *)

\* C3: for every condition sequence that holds the Ready condition with
\* status false, isReady returns (ready = false, no error).
C3_ReadyFalseGivesNotReady ==
    (pc = "return" /\ HasReadyStatus(conditions, ConditionFalse))
        => readyRet = [ready |-> FALSE, err |-> Nil]

\* C4: for every condition sequence that holds the Ready condition with a
\* status other than false (true or unknown), isReady returns (ready = true,
\* no error).
C4_ReadyNotFalseGivesReady ==
    (/\ pc = "return"
     /\ \/ HasReadyStatus(conditions, ConditionTrue)
        \/ HasReadyStatus(conditions, ConditionUnknown))
        => readyRet = [ready |-> TRUE, err |-> Nil]

----------------------------------------------------------------------------
(* C5 *)

\* isReady fails on every sequence of the bounded input set without Ready
MissingReadyIsAnError ==
    \A cs \in ConditionSeqs : LacksReady(cs) =>
        (isReady(cs).err # Nil /\ isReady(cs).err = ErrConditionNotFound)

\* C5: for every condition sequence (the empty one included) that holds no
\* Ready condition, isReady returns an error, and the loop then skips the
\* node: it logs the failure, issues no provider query and no delete request
\* for it, and logs it neither as ready nor as a deletion.
C5_MissingReadySkipsNode ==
    /\ MissingReadyIsAnError
    /\ \A item \in Items : \A k \in EventsOf("isReady", item.name) :
          LacksReady(item.conditions) =>
              /\ trace[k].err # Nil
              /\ trace[k + 1] = Log(MsgReadyFailed, trace[k].err)
              /\ ~Queried(item.name)
              /\ ~DeleteRequested(item.name)
              /\ ~Logged(MsgReady, item.name)
              /\ ~Logged(MsgDryRun, item.name)
              /\ item.name \in DOMAIN cluster

\* a finished tick listed a node with no condition at all and a node with
\* conditions but no Ready one, and evaluated both
C5_Witness ==
    /\ pc = "wait"
    /\ \E a, b \in Items :
          /\ a.conditions = <<>>
          /\ b.conditions # <<>>
          /\ LacksReady(b.conditions)
          /\ EventsOf("isReady", a.name) # {}
          /\ EventsOf("isReady", b.name) # {}

----------------------------------------------------------------------------
(* C6, C7, C8: isRunning on a response of the provider *)

\* C6: for every provider response that succeeds with zero reservations,
\* isRunning returns (running = false, no error).
C6_NoReservationsNotRunning ==
    (pc = "return" /\ resp.err = Nil /\ Len(resp.reservations) = 0)
        => runningRet = [running |-> FALSE, err |-> Nil]

C6_Witness ==
    /\ pc = "return"
    /\ resp.err = Nil
    /\ Len(resp.reservations) = 0
    /\ runningRet.running = FALSE

\* C7: for every provider response whose reservations hold an instance with
\* the requested id, isRunning returns no error and running = true exactly
\* when that instance's state is "running", whatever reservation holds it
\* and whatever other instances the response holds.
C7_FoundInstanceDecidesByState ==
    (pc = "return" /\ resp.err = Nil) =>
        \A inst \in InstancesOf(resp) :
            inst.id = id =>
                /\ runningRet.err = Nil
                /\ runningRet.running = (inst.state = InstanceStateNameRunning)

\* the requested instance is stopped and sits in the second reservation,
\* behind a reservation that holds another, running instance
C7_Witness ==
    /\ pc = "return"
    /\ resp.err = Nil
    /\ Len(resp.reservations) = 2
    /\ \E other \in InstancesOf(resp) :
          other.id # id /\ other.state = InstanceStateNameRunning
    /\ Len(resp.reservations[2]) > 0
    /\ resp.reservations[2][Len(resp.reservations[2])].id = id
    /\ resp.reservations[2][Len(resp.reservations[2])].state = "stopped"
    /\ runningRet.running = FALSE

\* C8: for every provider response that holds at least one reservation but
\* no instance with the requested id (reservations with empty instance lists
\* included), isRunning returns an error and not (false, nil), unlike the
\* zero-reservations outcome.
C8_InstanceMissingFromResponseIsAnError ==
    (/\ pc = "return"
     /\ resp.err = Nil
     /\ Len(resp.reservations) > 0
     /\ \A inst \in InstancesOf(resp) : inst.id # id)
        => /\ runningRet.err = ErrInstanceNotFound(id)
           /\ runningRet.err # Nil
           /\ runningRet # [running |-> FALSE, err |-> Nil]

\* the response holds an empty reservation and a reservation with another
\* instance only
C8_Witness ==
    /\ pc = "return"
    /\ resp.err = Nil
    /\ Len(resp.reservations) = 2
    /\ resp.reservations[1] = <<>>
    /\ Len(resp.reservations[2]) = 1
    /\ resp.reservations[2][1].id # id
    /\ runningRet.err # Nil

----------------------------------------------------------------------------
(* C9 *)

\* the nodes of the listing that passed both checks and are past line 82
PassedBothChecks(item) ==
    /\ \E q \in EventsOf("isRunning", item.name) :
          trace[q].running = FALSE /\ trace[q].err = Nil
    /\ ~(pc = "delete" /\ list[idx].name = item.name)

\* C9: with the dry-run flag set no delete request is issued, in any tick,
\* for any node states and provider answers: every listed node is still in
\* the cluster, and each node that would be deleted has a "would have been
\* deleted" log entry with its name instead.
C9_DryRunNeverDeletes ==
    dryRun =>
        /\ \A k \in 1..Len(trace) : trace[k].op # "Delete"
        /\ \A item \in Items :
              /\ item.name \in DOMAIN cluster
              /\ PassedBothChecks(item) => Logged(MsgDryRun, item.name)

\* a dry-run tick has finished with two nodes that would have been deleted
C9_Witness ==
    /\ dryRun
    /\ pc = "wait"
    /\ Len(list) = 2
    /\ \A item \in Items :
          PassedBothChecks(item) /\ Logged(MsgDryRun, item.name)

----------------------------------------------------------------------------
(* C10 *)

\* C10: a listed node whose Ready condition has status true is skipped as
\* ready in that tick: no provider query and no delete request is issued
\* for it.
C10_ReadyNodeIsSkipped ==
    \A item \in Items :
        HasReadyStatus(item.conditions, ConditionTrue) =>
            /\ ~Queried(item.name)
            /\ ~DeleteRequested(item.name)
            /\ EventsOf("isReady", item.name) # {}
                  => Logged(MsgReady, item.name)

----------------------------------------------------------------------------
(* C11 *)

\* the loop is done with item in the current tick
Finished(item) ==
    /\ EventsOf("isReady", item.name) # {}
    /\ ~(pc \in {"isRunning", "delete"} /\ list[idx].name = item.name)

\* C11: a listed node whose Ready condition has status false and whose
\* instance query succeeds with zero reservations is acted on in that same
\* tick: it is not skipped as ready, its instance is queried, and when the
\* answer holds no reservation a delete request is issued for its name
\* (dry-run off) or the would-delete entry is logged (dry-run on).
C11_StaleNodeIsActedOn ==
    \A item \in Items :
        (HasReadyStatus(item.conditions, ConditionFalse) /\ Finished(item)) =>
            /\ ~Logged(MsgReady, item.name)
            /\ Queried(item.name)
            /\ \A q \in EventsOf("isRunning", item.name) :
                  (trace[q].out.err = Nil /\ Len(trace[q].out.reservations) = 0)
                      => IF dryRun
                         THEN Logged(MsgDryRun, item.name)
                         ELSE DeleteRequested(item.name)

----------------------------------------------------------------------------
(* C12 *)

\* the failure entries of the log
FailureMsgs == {MsgReadyFailed, MsgRunningFailed, MsgDeleteFailed}

\* C12: within a tick whose listing succeeded every node of the listing is
\* evaluated, whatever happened to the nodes before it: the loop is at a
\* node of the listing until the tick ends, every node before the current
\* one (all of them once the tick has ended) has had its readiness
\* evaluated, and each of them that passed both checks with dry-run off has
\* had its delete request.
C12_EveryListedNodeIsEvaluated ==
    /\ pc # "wait" => idx \in 1..Len(list)
    /\ \A k \in 1..Len(list) :
          (k < idx \/ pc = "wait") =>
              /\ EventsOf("isReady", list[k].name) # {}
              /\ (~dryRun /\ PassedBothChecks(list[k]))
                    => DeleteRequested(list[k].name)

\* a tick has ended in which the delete of the first node failed and the
\* second node was deleted all the same
C12_Witness ==
    /\ pc = "wait"
    /\ Len(list) = 2
    /\ \E d \in EventsOf("Delete", list[1].name) : trace[d].err # Nil
    /\ \E d \in EventsOf("Delete", list[2].name) : trace[d].err = Nil

----------------------------------------------------------------------------
(* C13 *)

\* the current tick's listing failed
ListingFailed == trace # <<>> /\ trace[1].op = "List" /\ trace[1].err # Nil

\* C13: when listing the nodes fails the whole tick is skipped: the tick
\* consists of the failed listing and its log entry only (no readiness
\* evaluation, provider query or delete request), the loop holds no item of
\* an earlier listing, and it waits for the next tick, whose first step is a
\* listing again.
C13_FailedListingSkipsTick ==
    /\ []( ListingFailed =>
             /\ trace = <<[op |-> "List", err |-> trace[1].err],
                          Log(MsgListFailed, trace[1].err)>>
             /\ list = <<>>
             /\ pc = "wait" )
    /\ [][ (ListingFailed /\ trace' # trace) =>
               (Len(trace') <= 2 /\ trace'[1].op = "List") ]_vars

\* a listing has failed after a tick in which a node was deleted, with a node
\* still in the cluster
C13_Witness ==
    /\ ListingFailed
    /\ Cardinality(DOMAIN cluster) = 1

----------------------------------------------------------------------------
(* C14 *)

\* the step is a successful listing
FreshListing ==
    /\ trace' # trace
    /\ trace' = <<[op |-> "List", err |-> Nil]>>

\* C14: when a delete request fails the node remains in the cluster, the
\* failure is logged, and there is no local retry: at most one delete
\* request is issued per listed node per tick, and the next successful
\* listing holds the node again, with the conditions it has then.
C14_FailedDeleteLeavesNode ==
    /\ []( \A item \in Items :
             /\ Cardinality(EventsOf("Delete", item.name)) <= 1
             /\ \A d \in EventsOf("Delete", item.name) :
                   trace[d].err # Nil =>
                       /\ item.name \in DOMAIN cluster
                       /\ d < Len(trace)
                       /\ trace[d + 1] = Log(MsgDeleteFailed, trace[d].err) )
    /\ [][ FreshListing =>
               /\ {list'[k].name : k \in 1..Len(list')} = DOMAIN cluster
               /\ Len(list') = Cardinality(DOMAIN cluster)
               /\ \A k \in 1..Len(list') :
                     list'[k].conditions = cluster[list'[k].name] ]_vars

\* the delete of a node failed in the current tick, and the tick has ended
C14_Witness ==
    /\ pc = "wait"
    /\ \E item \in Items : \E d \in EventsOf("Delete", item.name) :
          /\ trace[d].err # Nil
          /\ item.name \in DOMAIN cluster

----------------------------------------------------------------------------
(* C15 *)

\* the event that follows event k of the tick is the log entry (msg, arg)
FollowedBy(k, msg, arg) == k < Len(trace) /\ trace[k + 1] = Log(msg, arg)

\* no log entry follows event k
NotLogged(k) == k = Len(trace) \/ trace[k + 1].op # "log"

\* C15 as stated: in every tick every skipped node (ready, running,
\* readiness error, provider error) and every deletion (real and successful,
\* real and failed, or simulated) has a log entry that carries the node's
\* name.
C15_EveryOutcomeLoggedWithName ==
    \A item \in Items :
        Finished(item) =>
            \E k \in 1..Len(trace) :
                trace[k].op = "log" /\ trace[k].arg = item.name

\* C15 as amended: a node skipped as ready or as running and a dry-run
\* deletion have a log entry with the reason and the node's name; a
\* readiness error, a provider error and a failed delete have a log entry
\* with the reason and the error, which is what the log call is given in
\* place of the node's name; a successful delete has no log entry.
C15_LogEntriesOfATick ==
    /\ \A k \in 1..Len(trace) :
          /\ trace[k].op = "isReady" =>
                /\ trace[k].err # Nil
                      => FollowedBy(k, MsgReadyFailed, trace[k].err)
                /\ (trace[k].err = Nil /\ trace[k].ready)
                      => FollowedBy(k, MsgReady, trace[k].node)
          /\ trace[k].op = "isRunning" =>
                /\ trace[k].err # Nil
                      => FollowedBy(k, MsgRunningFailed, trace[k].err)
                /\ (trace[k].err = Nil /\ trace[k].running)
                      => FollowedBy(k, MsgRunning, trace[k].node)
          /\ trace[k].op = "Delete" =>
                /\ trace[k].err # Nil
                      => FollowedBy(k, MsgDeleteFailed, trace[k].err)
                /\ trace[k].err = Nil => NotLogged(k)
    /\ \A item \in Items :
          (dryRun /\ PassedBothChecks(item)) => Logged(MsgDryRun, item.name)

\* a tick has ended in which one node was deleted, with no log entry, and
\* the readiness evaluation of the other failed, logged without its name
C15_Witness ==
    /\ pc = "wait"
    /\ Len(list) = 2
    /\ \E a, b \in Items :
          /\ \E d \in EventsOf("Delete", a.name) : trace[d].err = Nil
          /\ \E r \in EventsOf("isReady", b.name) : trace[r].err # Nil
    /\ \A k \in 1..Len(trace) :
          trace[k].op = "log" => trace[k].arg \notin NodeNames

----------------------------------------------------------------------------
(* C16 *)

\* a step of main's loop, as opposed to a step of the control plane or of
\* the provider
LoopStep == Tick \/ TickListFails \/ CheckReady \/ CheckRunning \/ DeleteNode

\* the loop under its scheduling: the ticker keeps firing (main.go:35, 49),
\* and every call the loop blocks on returns.  The steps are the loop's: a
\* step of the control plane or of the provider leaves pc, list and idx
\* alone, and the directory and the registry start in any of their states.
SpecFair ==
    /\ Init
    /\ [][LoopStep]_vars
    /\ WF_vars(Tick \/ TickListFails)
    /\ WF_vars(CheckReady)
    /\ WF_vars(CheckRunning)
    /\ WF_vars(DeleteNode)

\* C16: the loop has no terminal state: whatever listing, readiness
\* evaluation, provider query and deletion answer, every tick finishes its
\* pass and the loop waits for the timer again, and a later tick always
\* runs.
C16_LoopNeverStops ==
    /\ []<>(pc = "wait")
    /\ []<><<Tick \/ TickListFails>>_vars

\* a tick has ended in which a listed node's delete failed, after an earlier
\* tick deleted the other node
C16_Witness ==
    /\ pc = "wait"
    /\ Cardinality(DOMAIN cluster) = 1
    /\ \E item \in Items : \E d \in EventsOf("Delete", item.name) :
          trace[d].err # Nil

----------------------------------------------------------------------------
(* C17 *)

\* the calls of the tick about nodes, in order, without the log entries
NodeOps == {"isReady", "isRunning", "Delete"}
ReadyEvents == {k \in 1..Len(trace) : trace[k].op = "isReady"}

\* event k is the p-th readiness evaluation of the tick
Rank(k) == Cardinality({j \in ReadyEvents : j <= k})

\* C17: within a tick the nodes are processed one at a time in the order of
\* the listing, each by readiness evaluation, then provider query, then
\* delete: the p-th readiness evaluation is that of the p-th node of the
\* listing; a provider query directly follows the readiness evaluation of
\* the same node, which returned not-ready without error; a delete request
\* directly follows the provider query of the same node, which returned
\* not-running without error; and a readiness evaluation starts only when
\* the node before it is finished (after the listing, a log entry or a
\* delete request), so the calls about one node are never interleaved with
\* those about another.
C17_NodesInOrderStepsInOrder ==
    \A k \in 1..Len(trace) :
        /\ trace[k].op = "isReady" =>
              /\ Rank(k) <= Len(list)
              /\ trace[k].node = list[Rank(k)].name
              /\ k > 1
              /\ trace[k - 1].op \in {"List", "log", "Delete"}
              /\ trace[k - 1].op = "List" => k = 2
        /\ trace[k].op = "isRunning" =>
              /\ k > 1
              /\ trace[k - 1].op = "isReady"
              /\ trace[k - 1].node = trace[k].node
              /\ trace[k - 1].ready = FALSE
              /\ trace[k - 1].err = Nil
        /\ trace[k].op = "Delete" =>
              /\ k > 1
              /\ trace[k - 1].op = "isRunning"
              /\ trace[k - 1].node = trace[k].node
              /\ trace[k - 1].running = FALSE
              /\ trace[k - 1].err = Nil
        /\ (trace[k].op \in NodeOps /\ pc # "wait") =>
              Rank(k) <= idx
        /\ (trace[k].op \in {"isRunning", "Delete"}) =>
              trace[k].node = list[Rank(k)].name

\* a tick over two nodes has ended with all three calls made for each, the
\* second node's after the first node's
C17_Witness ==
    /\ pc = "wait"
    /\ Len(list) = 2
    /\ Len(trace) >= 7
    /\ \A p \in 1..2 :
          /\ trace[3 * p - 1].op = "isReady"
          /\ trace[3 * p].op = "isRunning"
          /\ trace[3 * p + 1].op = "Delete"
          /\ trace[3 * p + 1].node = list[p].name
    /\ trace[4].err = Nil

----------------------------------------------------------------------------
(* C18 *)

\* the nodes the loop deleted in an earlier tick: they are gone from the
\* cluster and the current tick holds no successful delete of them
DeletedEarlier ==
    {n \in NodeNames \ DOMAIN cluster :
        \A d \in EventsOf("Delete", n) : trace[d].err # Nil}

\* event k of the tick is about node n: a call for it, a log entry with its
\* name, or an error that names it or its instance
About(k, n) ==
    \/ trace[k].op \in NodeOps /\ trace[k].node = n
    \/ trace[k].op = "log" /\
          trace[k].arg \in {n, ErrInstanceNotFound(ExternalID(n)), ErrNodeNotFound}

\* C18: once a node has been deleted, it is absent from every later listing,
\* and a later tick makes no readiness evaluation, provider query or delete
\* request for its name and logs nothing about it; the loop keeps no item
\* from one tick to the next: each successful listing holds exactly the
\* nodes of the cluster.
C18_DeletedNodeIsNotTouchedAgain ==
    /\ []( \A n \in DeletedEarlier :
             /\ \A item \in Items : item.name # n
             /\ \A k \in 1..Len(trace) : ~About(k, n) )
    /\ [][ FreshListing =>
               {list'[k].name : k \in 1..Len(list')} = DOMAIN cluster ]_vars

\* a tick has ended that listed and evaluated the one node left, the other
\* having been deleted in an earlier tick
C18_Witness ==
    /\ pc = "wait"
    /\ DeletedEarlier # {}
    /\ Len(list) = 1
    /\ trace[1] = [op |-> "List", err |-> Nil]
    /\ EventsOf("isReady", list[1].name) # {}

----------------------------------------------------------------------------
(* C19 *)

\* the loop is about to request the delete of list[idx] (main.go:87)
AboutToDelete == pc = "delete" /\ ~dryRun

\* the node as the cluster and the provider have it at this moment no
\* longer is what the loop decided on
ChangedSinceDecision ==
    /\ list[idx].name \in DOMAIN cluster
    /\ cluster[list[idx].name] # list[idx].conditions
    /\ HasReadyStatus(cluster[list[idx].name], ConditionFalse)
    /\ instances[list[idx].externalID] = InstanceStateNameRunning

\* C19: the delete decision for a node rests on the conditions of the
\* listing taken at the start of the tick and on the provider's answer at
\* the time of the query, and the node is not read again before the delete:
\* when the loop is about to delete, its last two calls are the readiness
\* evaluation of the listed conditions and the query of the same node; a
\* change made by the control plane or the provider leaves it about to
\* delete; and its next step requests the delete of that node, whatever the
\* node's conditions and the instance's state are at that moment.
C19_DeleteUsesSnapshot ==
    /\ []( pc = "delete" =>
             /\ Len(trace) >= 3
             /\ trace[Len(trace) - 1] =
                   [op |-> "isReady", node |-> list[idx].name,
                    ready |-> isReady(list[idx].conditions).ready,
                    err |-> isReady(list[idx].conditions).err]
             /\ trace[Len(trace)].op = "isRunning"
             /\ trace[Len(trace)].node = list[idx].name
             /\ trace[Len(trace)].running = FALSE
             /\ trace[Len(trace)].err = Nil )
    /\ [][ AboutToDelete =>
               \/ /\ pc' = "delete"
                  /\ <<list', idx', trace'>> = <<list, idx, trace>>
               \/ /\ Len(trace') > Len(trace)
                  /\ trace'[Len(trace) + 1].op = "Delete"
                  /\ trace'[Len(trace) + 1].node = list[idx].name ]_vars

\* the loop is about to delete a node whose instance the provider now has
\* running and whose conditions the control plane has changed since the
\* listing, and the delete request can go out
C19_Witness ==
    /\ AboutToDelete
    /\ ChangedSinceDecision
    /\ ENABLED DeleteNode

====
